---- MODULE Spec2Model ----
(***************************************************************************)
(* A model of hyper's C client-connection bridge, src/ffi/client.rs:       *)
(* the connection options, the handshake, the send operation and the       *)
(* ownership of every handle that crosses the boundary.                    *)
(*                                                                         *)
(* The model follows one client connection: one transport, one options     *)
(* object and one executor (two where the options are studied), with a     *)
(* bounded number of requests and tasks.                                   *)
(* Handles are small integers; NULL is the null pointer.  Every object     *)
(* records who owns it: "unalloc" (not created yet), "caller", "task"      *)
(* (moved into a task's future), "engine" (moved into the protocol         *)
(* engine), "freed".  The caller only passes NULL or a handle it owns.     *)
(***************************************************************************)
EXTENDS Integers, FiniteSets, Sequences, TLC

\* ----- bounds of the model
MaxReqs == 2
MaxTasks == 3

\* ----- program constants
NULL == 0

OptIds == {1}
IoIds == {1}
ExecIds == {1, 2}
ReqIds == 1..MaxReqs
TaskIds == 1..MaxTasks

\* c_int arguments of the flag setters
EnabledVals == {0, 1, 2}

VARIABLES
    feature_http2,  \* cfg(feature = "http2"): fixed when the library is built
    options,        \* hyper_clientconn_options objects
    io,             \* hyper_io transports
    executor,       \* hyper_executor objects (Arc): strong count, caller's refs
    spawned,        \* per executor, the handshake tasks whose driver it was given
    request,        \* hyper_request objects
    task,           \* hyper_task objects
    conn,           \* hyper_clientconn objects, indexed by the handshake task
    last            \* the caller's last call: its name, handle arguments, return

vars == <<feature_http2, options, io, executor, spawned, request, task, conn, last>>

\* ----- values

\* WeakExec::new(): a weak reference that never upgrades
NoExec == NULL

DefaultOptions ==
    [ st |-> "unalloc",
      http1_allow_obsolete_multiline_headers_in_responses |-> FALSE,
      http1_preserve_header_case |-> FALSE,
      http1_preserve_header_order |-> FALSE,
      http2 |-> FALSE,
      exec |-> NoExec ]

FreedOptions == [DefaultOptions EXCEPT !.st = "freed"]

NoTask ==
    [ kind |-> "none", st |-> "unalloc", engine |-> "none", result |-> "none",
      opt |-> NULL, io |-> NULL, conn |-> NULL, req |-> NULL ]

DroppedTask == [NoTask EXCEPT !.st = "dropped"]

\* a handshake task dropped before its future completed: the future, and the
\* closure that would have submitted the driver, never ran to the end
CancelledTask == [DroppedTask EXCEPT !.result = "cancelled"]

NoConn == [ st |-> "unalloc", tx |-> "none", io |-> NULL, exec |-> NoExec ]

Call(op, a, b, code, ret) == [ op |-> op, a |-> a, b |-> b, code |-> code, ret |-> ret ]

\* the lowest handle of a pool that was never handed out
FreshIn(ids, f) == { i \in ids : f[i].st = "unalloc" /\ \A j \in ids : j < i => f[j].st # "unalloc" }

\* what the caller may pass for a handle: NULL or an object it owns
Owned(ids, f) == { i \in ids : f[i].st = "caller" }
Arg(ids, f) == {NULL} \cup Owned(ids, f)

\* requests are interchangeable: the caller spends the ones it owns in order
ReqArg == {NULL} \cup { r \in Owned(ReqIds, request) : \A q \in Owned(ReqIds, request) : r <= q }

\* an executor the caller holds one owning reference of, and one it has
\* released
LiveExecutor == [st |-> "live", strong |-> 1, caller |-> 1]
ReleasedExecutor == [st |-> "destroyed", strong |-> 0, caller |-> 0]

\* The caller has made its transport and its requests (hyper_io_new,
\* hyper_request_new) and holds the executors in live; no options yet.
InitWith(live) ==
    /\ feature_http2 \in BOOLEAN
    /\ options = [o \in OptIds |-> DefaultOptions]
    /\ io = [i \in IoIds |-> [st |-> "caller", open |-> TRUE]]
    /\ executor = [e \in ExecIds |-> IF e \in live THEN LiveExecutor ELSE ReleasedExecutor]
    /\ spawned = [e \in ExecIds |-> {}]
    /\ request = [r \in ReqIds |-> [st |-> "caller", finalized |-> FALSE]]
    /\ task = [t \in TaskIds |-> NoTask]
    /\ conn = [t \in TaskIds |-> NoConn]
    /\ last = Call("init", NULL, NULL, "UNIT", NULL)

\* a program with one executor
Init == InitWith({1})

\* a program with two executors
InitTwoExecutors == InitWith(ExecIds)

\* ===== the executor (ffi/task.rs)

\* dropping one owning reference of an Arc: the last one destroys the executor
ArcDrop(x) ==
    IF x.strong <= 1
    THEN [x EXCEPT !.strong = 0, !.st = "destroyed"]
    ELSE [x EXCEPT !.strong = x.strong - 1]

\* a destroyed executor drops the drivers it was given, and each driver the
\* transport it owns
DriversDropped(e) ==
    [i \in IoIds |->
        IF io[i].st = "engine" /\ \E c \in spawned[e] : conn[c].io = i
        THEN [io[i] EXCEPT !.st = "freed"]
        ELSE io[i]]

\* hyper_executor_free: the caller releases its owning reference
hyper_executor_free(e) ==
    /\ executor[e].caller > 0
    /\ executor' = [executor EXCEPT ![e] = [ArcDrop(executor[e]) EXCEPT !.caller = executor[e].caller - 1]]
    /\ io' = IF executor'[e].st = "destroyed" THEN DriversDropped(e) ELSE io
    /\ last' = Call("hyper_executor_free", e, NULL, "UNIT", NULL)
    /\ UNCHANGED <<feature_http2, options, spawned, request, task, conn>>

\* ===== impl hyper_clientconn_options

\* fresh options that preserve the header case
NewOptionsPreservingCase ==
    [DefaultOptions EXCEPT !.st = "caller", !.http1_preserve_header_case = TRUE]

\* Box::new(hyper_clientconn_options { .. }): all flags false, WeakExec::new()
NewOptions == [DefaultOptions EXCEPT !.st = "caller"]

hyper_clientconn_options_new ==
    \E o \in FreshIn(OptIds, options) :
        /\ options' = [options EXCEPT ![o] = NewOptions]
        /\ last' = Call("hyper_clientconn_options_new", NULL, NULL, "PTR", o)
        /\ UNCHANGED <<feature_http2, io, executor, spawned, request, task, conn>>

\* c_int to bool: enabled != 0
AsBool(enabled) == enabled # 0

SetCase(o, enabled) ==
    IF o = NULL THEN options
    ELSE [options EXCEPT ![o].http1_preserve_header_case = AsBool(enabled)]

hyper_clientconn_options_set_preserve_header_case(o, enabled) ==
    /\ options' = SetCase(o, enabled)
    /\ last' = Call("hyper_clientconn_options_set_preserve_header_case", o, NULL, "UNIT", NULL)
    /\ UNCHANGED <<feature_http2, io, executor, spawned, request, task, conn>>

SetOrder(o, enabled) ==
    IF o = NULL THEN options
    ELSE [options EXCEPT ![o].http1_preserve_header_order = AsBool(enabled)]

hyper_clientconn_options_set_preserve_header_order(o, enabled) ==
    /\ options' = SetOrder(o, enabled)
    /\ last' = Call("hyper_clientconn_options_set_preserve_header_order", o, NULL, "UNIT", NULL)
    /\ UNCHANGED <<feature_http2, io, executor, spawned, request, task, conn>>

\* drop(Box::from_raw(opts)): the object is gone, its weak reference with it
hyper_clientconn_options_free(o) ==
    /\ options' = IF o = NULL THEN options ELSE [options EXCEPT ![o] = FreedOptions]
    /\ last' = Call("hyper_clientconn_options_free", o, NULL, "UNIT", NULL)
    /\ UNCHANGED <<feature_http2, io, executor, spawned, request, task, conn>>

\* the same without mem::forget: the Arc taken from the raw pointer is dropped
BorrowedArcNotForgotten(x) ==
    IF x.strong <= 1
    THEN [x EXCEPT !.strong = 0, !.st = "destroyed"]
    ELSE [x EXCEPT !.strong = x.strong - 1]

\* Arc::from_raw(exec); downgrade(&exec); mem::forget(exec): the owning
\* reference taken from the raw pointer is given back, the count is as before
BorrowedArc(x) == x

\* a setter that keeps the executor attached first
SetExecOnce(o, e) ==
    IF o = NULL \/ e = NULL \/ options[o].exec # NoExec THEN options
    ELSE [options EXCEPT ![o].exec = e]

SetExec(o, e) ==
    IF o = NULL \/ e = NULL THEN options
    ELSE [options EXCEPT ![o].exec = e]

hyper_clientconn_options_exec(o, e) ==
    /\ options' = SetExec(o, e)
    /\ executor' = IF o = NULL \/ e = NULL THEN executor
                   ELSE [executor EXCEPT ![e] = BorrowedArc(executor[e])]
    /\ last' = Call("hyper_clientconn_options_exec", o, e, "UNIT", NULL)
    /\ UNCHANGED <<feature_http2, io, spawned, request, task, conn>>

\* a setter without the cfg: it writes the flag in every build
SetHttp2AnyBuild(o, enabled) ==
    IF o # NULL THEN [options EXCEPT ![o].http2 = AsBool(enabled)] ELSE options

SetHttp2(o, enabled) ==
    IF feature_http2 /\ o # NULL
    THEN [options EXCEPT ![o].http2 = AsBool(enabled)]
    ELSE options

Http2Code(o) ==
    IF feature_http2
    THEN (IF o = NULL THEN "HYPERE_INVALID_ARG" ELSE "HYPERE_OK")
    ELSE "HYPERE_FEATURE_NOT_ENABLED"

hyper_clientconn_options_http2(o, enabled) ==
    /\ options' = SetHttp2(o, enabled)
    /\ last' = Call("hyper_clientconn_options_http2", o, NULL, Http2Code(o), NULL)
    /\ UNCHANGED <<feature_http2, io, executor, spawned, request, task, conn>>

SetMultiline(o, enabled) ==
    IF o = NULL THEN options
    ELSE [options EXCEPT ![o].http1_allow_obsolete_multiline_headers_in_responses = AsBool(enabled)]

\* a setter that reports success whatever the handle
MultilineCodeAlwaysOk(o) == "HYPERE_OK"

MultilineCode(o) == IF o = NULL THEN "HYPERE_INVALID_ARG" ELSE "HYPERE_OK"

hyper_clientconn_options_http1_allow_multiline_headers(o, enabled) ==
    /\ options' = SetMultiline(o, enabled)
    /\ last' = Call("hyper_clientconn_options_http1_allow_multiline_headers", o, NULL, MultilineCode(o), NULL)
    /\ UNCHANGED <<feature_http2, io, executor, spawned, request, task, conn>>

\* ===== impl hyper_clientconn

\* non_null! on options, then on io: a null options returns before the io is
\* looked at; a null io returns after the options Box was taken, dropping it
HandshakeOptions(i, o) ==
    IF o = NULL THEN options
    ELSE IF i = NULL THEN [options EXCEPT ![o] = FreedOptions]
    ELSE [options EXCEPT ![o].st = "task"]

\* a handshake that borrows the io (&mut *io) and leaves it with the caller
HandshakeIoBorrowed(i, o) == io

HandshakeIo(i, o) ==
    IF o = NULL \/ i = NULL THEN io
    ELSE [io EXCEPT ![i].st = "task"]

\* a handshake that forgets the null check of the io
HandshakeStartsUncheckedIo(i, o) == o # NULL

\* whether the call gets as far as hyper_task::boxed
HandshakeStarts(i, o) == o # NULL /\ i # NULL

\* the task made by hyper_task::boxed(async move { .. }): the future owns the
\* options and the io; nothing of it has run yet
HandshakeTask(i, o) ==
    [NoTask EXCEPT !.kind = "handshake", !.st = "pending", !.engine = "inflight",
                   !.opt = o, !.io = i]

hyper_clientconn_handshake(i, o) ==
    /\ options' = HandshakeOptions(i, o)
    /\ io' = HandshakeIo(i, o)
    /\ IF HandshakeStarts(i, o)
       THEN \E t \in FreshIn(TaskIds, task) :
               /\ task' = [task EXCEPT ![t] = HandshakeTask(i, o)]
               /\ last' = Call("hyper_clientconn_handshake", i, o, "PTR", t)
       ELSE /\ task' = task
            /\ last' = Call("hyper_clientconn_handshake", i, o, "PTR", NULL)
    /\ UNCHANGED <<feature_http2, executor, spawned, request, conn>>

\* a handshake that never looks at options.http2
ProtoIgnoringHttp2(opts) == "Http1"

\* cfg(feature = "http2") { if options.http2 { .. Tx::Http2 } } .. Tx::Http1
Proto(opts) == IF feature_http2 /\ opts.http2 THEN "Http2" ELSE "Http1"

\* Builder::executor(options.exec.clone()): the connection keeps a clone of
\* the weak reference
BuilderExec(opts) == opts.exec

\* conn::http2::Builder::new().executor(..): no http1 flag is passed on, the
\* builder keeps its defaults
Http2Builder(opts) ==
    [ proto |-> "Http2", exec |-> BuilderExec(opts),
      http1_allow_obsolete_multiline_headers_in_responses |-> FALSE,
      http1_preserve_header_case |-> FALSE,
      http1_preserve_header_order |-> FALSE ]

\* conn::http1::Builder::new().executor(..) and the three http1 flags
Http1Builder(opts) ==
    [ proto |-> "Http1", exec |-> BuilderExec(opts),
      http1_allow_obsolete_multiline_headers_in_responses |->
          opts.http1_allow_obsolete_multiline_headers_in_responses,
      http1_preserve_header_case |-> opts.http1_preserve_header_case,
      http1_preserve_header_order |-> opts.http1_preserve_header_order ]

\* the builder the async block hands the io to
Builder(opts) == IF Proto(opts) = "Http2" THEN Http2Builder(opts) ELSE Http1Builder(opts)

\* WeakExec::execute: spawn on the executor if the weak reference upgrades,
\* drop the future otherwise
Upgrades(e) == e # NoExec /\ executor[e].strong > 0

\* a closure that fails the handshake when there is no executor to spawn on
HandshakeResultNeedsExec(engine, e) ==
    IF engine = "ok" /\ e # NULL /\ executor[e].strong > 0 THEN "conn" ELSE "err"

\* a closure applied to the engine's error as well as to its Ok
HandshakeResultAlwaysConn(engine, e) == "conn"

\* .map(|(tx, conn)| { options.exec.execute(driver); hyper_clientconn { tx } })
\* applied to the engine's result: Ok gives a connection handle, whether or
\* not the driver found an executor; Err passes through
HandshakeResult(engine, e) == IF engine = "ok" THEN "conn" ELSE "err"

\* a driver submitted before the engine's result is looked at
DriverSubmittedAlways(engine, e) == Upgrades(e)

\* the closure runs, and submits the driver, only on Ok
DriverSubmitted(engine, e) == engine = "ok" /\ Upgrades(e)

\* an await that wakes the task on Ok only
HandshakeReadyOnlyOk(t) == task[t].engine = "ok"

\* .handshake(io).await: the future goes on once the engine has answered,
\* with Ok or with Err
HandshakeReady(t) == task[t].engine # "inflight"

\* One poll of the handshake future by the polling loop, once the protocol
\* engine has an answer (a poll before that returns Pending and changes
\* nothing).  The future completes: its captured options are dropped; the io
\* went to the engine, which keeps it in the driver if that was spawned.
PollHandshake(t) ==
    /\ task[t].kind = "handshake"
    /\ task[t].st = "pending"
    /\ HandshakeReady(t)
    /\ LET o == task[t].opt
           i == task[t].io
           e == options[o].exec
           res == HandshakeResult(task[t].engine, e)
           sub == DriverSubmitted(task[t].engine, e)
       IN /\ task' = [task EXCEPT ![t].st = "ready", ![t].result = res,
                                  ![t].conn = IF res = "conn" THEN t ELSE NULL]
          /\ conn' = IF res = "conn"
                     THEN [conn EXCEPT ![t] = [st |-> "task", tx |-> Builder(options[o]).proto, io |-> i, exec |-> Builder(options[o]).exec]]
                     ELSE conn
          /\ spawned' = IF sub THEN [spawned EXCEPT ![e] = @ \cup {t}] ELSE spawned
          /\ options' = [options EXCEPT ![o] = FreedOptions]
          /\ io' = [io EXCEPT ![i].st = IF sub THEN "engine" ELSE "freed"]
    /\ UNCHANGED <<feature_http2, executor, request, last>>

\* connection handles the caller owns
ConnArg == {NULL} \cup { c \in TaskIds : conn[c].st = "caller" }

\* a send that hands the request to the sender before it checks the handle
SendRequestDispatchedFirst(c, r) ==
    IF r = NULL THEN request
    ELSE [request EXCEPT ![r] = [st |-> "engine", finalized |-> TRUE]]

\* a send that checks the handle first and returns with the request untouched
SendRequestConnFirst(c, r) ==
    IF r = NULL \/ c = NULL THEN request
    ELSE [request EXCEPT ![r] = [st |-> "engine", finalized |-> TRUE]]

\* Box::from_raw(req) and finalize_request() come before the connection is
\* looked at: a null connection returns with the request taken and dropped
SendRequest(c, r) ==
    IF r = NULL THEN request
    ELSE IF c = NULL THEN [request EXCEPT ![r] = [st |-> "freed", finalized |-> TRUE]]
    ELSE [request EXCEPT ![r] = [st |-> "engine", finalized |-> TRUE]]

\* a send that takes the handle (Box::from_raw) instead of borrowing it
SendConnConsumed(c, r) ==
    IF c = NULL \/ r = NULL THEN conn ELSE [conn EXCEPT ![c].st = "freed"]

\* &mut *conn: the handle is borrowed for the call
SendConn(c, r) == conn

SendStarts(c, r) == r # NULL /\ c # NULL

\* match conn.tx { Http1(tx) => tx.send_request(req), Http2(tx) => .. }
SendTask(c, r) ==
    [NoTask EXCEPT !.kind = "send", !.st = "pending", !.engine = conn[c].tx,
                   !.conn = c, !.req = r]

hyper_clientconn_send(c, r) ==
    /\ request' = SendRequest(c, r)
    /\ conn' = SendConn(c, r)
    /\ IF SendStarts(c, r)
       THEN \E t \in FreshIn(TaskIds, task) :
               /\ task' = [task EXCEPT ![t] = SendTask(c, r)]
               /\ last' = Call("hyper_clientconn_send", c, r, "PTR", t)
       ELSE /\ task' = task
            /\ last' = Call("hyper_clientconn_send", c, r, "PTR", NULL)
    /\ UNCHANGED <<feature_http2, options, io, executor, spawned>>

\* the connection's transport is open: its driver holds it and the peer has
\* not closed it
TransportOpen(c) == io[conn[c].io].st = "engine" /\ io[conn[c].io].open

\* SendRequest::send_request: answered with a response over an open
\* transport, with an error otherwise
EngineAnswer(c) == IF TransportOpen(c) THEN "ok" ELSE "err"

\* fut.await.map(hyper_response::wrap)
SendResult(answer) == IF answer = "ok" THEN "resp" ELSE "err"

\* One poll of a send future that finds the engine's answer
PollSend(t) ==
    /\ task[t].kind = "send"
    /\ task[t].st = "pending"
    /\ task' = [task EXCEPT ![t].st = "ready", ![t].result = SendResult(EngineAnswer(task[t].conn))]
    /\ request' = [request EXCEPT ![task[t].req].st = "freed"]
    /\ UNCHANGED <<feature_http2, options, io, executor, spawned, conn, last>>

\* a free that cancels the sends made from the handle
ConnFreeTasksCancelled(c) ==
    [t \in TaskIds |->
        IF task[t].kind = "send" /\ task[t].st = "pending" /\ task[t].conn = c
        THEN DroppedTask
        ELSE task[t]]

\* the handle owns its sender (tx) and nothing else: the futures of the sends
\* already made were moved into their tasks, which the drop does not touch
ConnFreeTasks(c) == task

\* drop(Box::from_raw(conn))
hyper_clientconn_free(c) ==
    /\ conn' = IF c = NULL THEN conn ELSE [conn EXCEPT ![c].st = "freed"]
    /\ task' = ConnFreeTasks(c)
    /\ last' = Call("hyper_clientconn_free", c, NULL, "UNIT", NULL)
    /\ UNCHANGED <<feature_http2, options, io, executor, spawned, request>>

\* ===== the task bridge (ffi/task.rs) and the protocol engines

\* tasks the caller holds a handle of
TaskArg == { t \in TaskIds : task[t].st \in {"pending", "ready", "consumed"} }

\* a take that leaves the value in the task
hyper_task_value_repeatable(t) ==
    /\ t \in TaskArg
    /\ IF task[t].st = "ready"
       THEN /\ task' = task
            /\ conn' = IF task[t].result = "conn" THEN [conn EXCEPT ![t].st = "caller"] ELSE conn
            /\ last' = Call("hyper_task_value", t, NULL, task[t].result, t)
       ELSE /\ UNCHANGED <<task, conn>>
            /\ last' = Call("hyper_task_value", t, NULL, "none", NULL)
    /\ UNCHANGED <<feature_http2, options, io, executor, spawned, request>>

\* hyper_task_value: moves the value out of a ready task, once; NULL before
\* the task is ready and after the value was taken
hyper_task_value(t) ==
    /\ t \in TaskArg
    /\ IF task[t].st = "ready"
       THEN /\ task' = [task EXCEPT ![t].st = "consumed"]
            /\ conn' = IF task[t].result = "conn" THEN [conn EXCEPT ![t].st = "caller"] ELSE conn
            /\ last' = Call("hyper_task_value", t, NULL, task[t].result, t)
       ELSE /\ UNCHANGED <<task, conn>>
            /\ last' = Call("hyper_task_value", t, NULL, "none", NULL)
    /\ UNCHANGED <<feature_http2, options, io, executor, spawned, request>>

\* hyper_task_free: drops the task, and with it the future and what it owns
\* (a pending one) or the value nobody took (a ready one)
hyper_task_free(t) ==
    /\ t \in TaskArg
    /\ task' = [task EXCEPT ![t] = IF task[t].kind = "handshake" /\ task[t].st = "pending"
                                   THEN CancelledTask ELSE DroppedTask]
    /\ options' = IF task[t].kind = "handshake" /\ task[t].st = "pending"
                  THEN [options EXCEPT ![task[t].opt] = FreedOptions]
                  ELSE options
    /\ io' = IF task[t].kind = "handshake" /\ task[t].st = "pending"
             THEN [io EXCEPT ![task[t].io].st = "freed"]
             ELSE io
    /\ request' = IF task[t].kind = "send" /\ task[t].st = "pending"
                  THEN [request EXCEPT ![task[t].req].st = "freed"]
                  ELSE request
    /\ conn' = IF task[t].st = "ready" /\ task[t].result = "conn"
               THEN [conn EXCEPT ![t].st = "freed"]
               ELSE conn
    /\ last' = Call("hyper_task_free", t, NULL, "UNIT", NULL)
    /\ UNCHANGED <<feature_http2, executor, spawned>>

\* the peer closes the transport of an established connection (before that,
\* a closed transport is a failed handshake)
TransportClose(i) ==
    /\ io[i].st = "engine"
    /\ io[i].open
    /\ io' = [io EXCEPT ![i].open = FALSE]
    /\ UNCHANGED <<feature_http2, options, executor, spawned, request, task, conn, last>>

\* conn::http1/http2 Builder::handshake(io): succeeds or fails on the transport
EngineHandshake(t, out) ==
    /\ task[t].kind = "handshake"
    /\ task[t].st = "pending"
    /\ task[t].engine = "inflight"
    /\ task' = [task EXCEPT ![t].engine = out]
    /\ UNCHANGED <<feature_http2, options, io, executor, spawned, request, conn, last>>

Next ==
    \/ \E e \in ExecIds : hyper_executor_free(e)
    \/ hyper_clientconn_options_new
    \/ \E o \in Arg(OptIds, options) : \E v \in EnabledVals :
          hyper_clientconn_options_set_preserve_header_case(o, v)
    \/ \E o \in Arg(OptIds, options) : \E v \in EnabledVals :
          hyper_clientconn_options_set_preserve_header_order(o, v)
    \/ \E o \in Arg(OptIds, options) : hyper_clientconn_options_free(o)
    \/ \E o \in Arg(OptIds, options) : \E e \in {NULL} \cup { x \in ExecIds : executor[x].caller > 0 } :
          hyper_clientconn_options_exec(o, e)
    \/ \E o \in Arg(OptIds, options) : \E v \in EnabledVals :
          hyper_clientconn_options_http2(o, v)
    \/ \E o \in Arg(OptIds, options) : \E v \in EnabledVals :
          hyper_clientconn_options_http1_allow_multiline_headers(o, v)
    \/ \E i \in Arg(IoIds, io) : \E o \in Arg(OptIds, options) : hyper_clientconn_handshake(i, o)
    \/ \E t \in TaskIds : PollHandshake(t)
    \/ \E c \in ConnArg : \E r \in ReqArg : hyper_clientconn_send(c, r)
    \/ \E t \in TaskIds : PollSend(t)
    \/ \E c \in ConnArg : hyper_clientconn_free(c)
    \/ \E t \in TaskIds : hyper_task_value(t)
    \/ \E t \in TaskIds : hyper_task_free(t)
    \/ \E i \in IoIds : TransportClose(i)
    \/ \E t \in TaskIds : \E out \in {"ok", "err"} : EngineHandshake(t, out)

Spec == Init /\ [][Next]_vars

FairSpec == Spec /\ \A t \in TaskIds : WF_vars(PollHandshake(t))

\* The options and the handshake of a program with two executors: the
\* setters, the handshake, its resolution and the release of the executors.
NextOptions ==
    \/ \E e \in ExecIds : hyper_executor_free(e)
    \/ hyper_clientconn_options_new
    \/ \E o \in Arg(OptIds, options) : \E v \in EnabledVals :
          hyper_clientconn_options_set_preserve_header_case(o, v)
    \/ \E o \in Arg(OptIds, options) : \E v \in EnabledVals :
          hyper_clientconn_options_set_preserve_header_order(o, v)
    \/ \E o \in Arg(OptIds, options) : hyper_clientconn_options_free(o)
    \/ \E o \in Arg(OptIds, options) : \E e \in {NULL} \cup { x \in ExecIds : executor[x].caller > 0 } :
          hyper_clientconn_options_exec(o, e)
    \/ \E o \in Arg(OptIds, options) : \E v \in EnabledVals :
          hyper_clientconn_options_http2(o, v)
    \/ \E o \in Arg(OptIds, options) : \E v \in EnabledVals :
          hyper_clientconn_options_http1_allow_multiline_headers(o, v)
    \/ \E i \in Arg(IoIds, io) : \E o \in Arg(OptIds, options) : hyper_clientconn_handshake(i, o)
    \/ \E t \in TaskIds : PollHandshake(t)
    \/ \E t \in TaskIds : hyper_task_value(t)
    \/ \E t \in TaskIds : hyper_task_free(t)
    \/ \E t \in TaskIds : \E out \in {"ok", "err"} : EngineHandshake(t, out)

OptionsSpec == InitTwoExecutors /\ [][NextOptions]_vars

\* ===== properties

HandshakeTasks == { t \in TaskIds : task[t].kind = "handshake" }
SendTasks == { t \in TaskIds : task[t].kind = "send" }

\* C1: a handshake task that resolves successfully carries the variant the
\* options selected when they were passed: Http2 if options.http2 was true and
\* http2 is compiled in, Http1 otherwise.  The options moved into the task are
\* not changed between the call and the poll that resolves the task.
C1_VariantMatchesOptions ==
    [][ /\ \A o \in OptIds :
              options[o].st = "task" /\ options'[o].st = "task" => options'[o] = options[o]
        /\ \A t \in TaskIds :
              ( /\ task[t].kind = "handshake" /\ task[t].st = "pending"
                /\ task'[t].st = "ready" /\ task'[t].result = "conn" )
              => /\ conn'[t].st = "task"
                 /\ conn'[t].tx = IF feature_http2 /\ options[task[t].opt].http2
                                  THEN "Http2" ELSE "Http1" ]_vars

\* C1 witness: a handshake resolved with a protocol-2 connection handle
C1_Witness ==
    \E t \in HandshakeTasks :
        task[t].st = "ready" /\ task[t].result = "conn" /\ conn[t].tx = "Http2"

\* C2: after hyper_clientconn_handshake returns, neither non-null input is
\* still owned by the caller, whatever the outcome.
C2_BothInputsConsumed ==
    last.op = "hyper_clientconn_handshake" =>
        /\ last.a # NULL => io[last.a].st # "caller"
        /\ last.b # NULL => options[last.b].st # "caller"

\* C3: hyper_clientconn_handshake returns a non-null task exactly when both
\* inputs are non-null, and that task is a new pending one; with a null input
\* it returns null, creates no task and submits nothing to an executor.
C3_TaskIffBothNonNull ==
    [][ \A i \in {NULL} \cup IoIds : \A o \in {NULL} \cup OptIds :
          (last'.op = "hyper_clientconn_handshake" /\ hyper_clientconn_handshake(i, o)) =>
              IF i # NULL /\ o # NULL
              THEN /\ last'.ret \in TaskIds
                   /\ task[last'.ret].st = "unalloc"
                   /\ task'[last'.ret].kind = "handshake"
                   /\ task'[last'.ret].st = "pending"
                   /\ \A u \in TaskIds \ {last'.ret} : task'[u] = task[u]
              ELSE /\ last'.ret = NULL
                   /\ task' = task
                   /\ spawned' = spawned /\ conn' = conn ]_vars

\* C3 witness: a handshake with a null io and valid options returned null
\* and left no task behind
C3_Witness ==
    /\ last.op = "hyper_clientconn_handshake"
    /\ last.a = NULL /\ last.b # NULL /\ last.ret = NULL
    /\ \A t \in TaskIds : task[t].st = "unalloc"

\* a handshake task the protocol engine has answered and no poll has resolved
HandshakeAnswered(t) ==
    task[t].kind = "handshake" /\ task[t].st = "pending" /\ task[t].engine # "inflight"

\* C4: under fair polling, a handshake task whose protocol handshake has
\* succeeded or failed does not stay pending: whenever a task is in that
\* condition a state follows in which none is, and a task leaves the
\* condition only by becoming ready, with a connection handle or an error,
\* or by being dropped by the caller.
C4_HandshakeNeverStuck ==
    /\ (\E t \in TaskIds : HandshakeAnswered(t)) ~> (\A t \in TaskIds : ~HandshakeAnswered(t))
    /\ [][ \A t \in TaskIds :
              (HandshakeAnswered(t) /\ ~HandshakeAnswered(t)') =>
                  \/ task'[t].st = "ready" /\ task'[t].result \in {"conn", "err"}
                  \/ task'[t].st = "dropped" /\ last'.op = "hyper_task_free" ]_vars

\* C4 witness: the engine failed the handshake and the task is ready with
\* the error
C4_Witness ==
    \E t \in HandshakeTasks :
        task[t].st = "ready" /\ task[t].engine = "err" /\ task[t].result = "err"

\* C5: hyper_clientconn_send leaves the connection handle as it was (owned by
\* the caller, same variant), a handle's variant never changes once the
\* handshake made it, every send with a non-null handle and request returns a
\* new pending task of its own, and a send that resolves while the transport
\* is open resolves to a response, however many sends went before it.
C5_SendBorrowsConnection ==
    [][ /\ \A c \in {NULL} \cup TaskIds : \A r \in {NULL} \cup ReqIds :
              (last'.op = "hyper_clientconn_send" /\ hyper_clientconn_send(c, r)) =>
                  /\ conn' = conn
                  /\ (c # NULL /\ r # NULL) =>
                        /\ conn'[c].st = "caller"
                        /\ last'.ret \in TaskIds
                        /\ task[last'.ret].st = "unalloc"
                        /\ task'[last'.ret].kind = "send"
                        /\ task'[last'.ret].st = "pending"
                        /\ task'[last'.ret].engine = conn[c].tx
                        /\ \A u \in TaskIds \ {last'.ret} : task'[u] = task[u]
        /\ \A c \in TaskIds : conn[c].st # "unalloc" => conn'[c].tx = conn[c].tx
        /\ \A t \in TaskIds :
              ( /\ task[t].kind = "send" /\ task[t].st = "pending"
                /\ task'[t].st = "ready" /\ TransportOpen(task[t].conn) )
              => task'[t].result = "resp" ]_vars

\* C5 witness: two sends on one handle both resolved to a response, and the
\* caller still owns the handle
C5_Witness ==
    \E c \in TaskIds : \E t1 \in SendTasks : \E t2 \in SendTasks :
        /\ t1 # t2
        /\ conn[c].st = "caller"
        /\ task[t1].conn = c /\ task[t1].st = "ready" /\ task[t1].result = "resp"
        /\ task[t2].conn = c /\ task[t2].st = "ready" /\ task[t2].result = "resp"

\* C6: hyper_clientconn_send with a null connection handle returns null, and
\* no task is allocated and no request is handed to a sender.
C6_NullConnSendsNothing ==
    [][ \A r \in {NULL} \cup ReqIds :
          (last'.op = "hyper_clientconn_send" /\ hyper_clientconn_send(NULL, r)) =>
              /\ last'.ret = NULL
              /\ task' = task
              /\ conn' = conn
              /\ \A q \in ReqIds : request'[q].st = "engine" => request[q].st = "engine" ]_vars

\* C6 witness: a send with a null handle and a valid request returned null;
\* the request is gone and no send task exists
C6_Witness ==
    /\ last.op = "hyper_clientconn_send"
    /\ last.a = NULL /\ last.b # NULL /\ last.ret = NULL
    /\ request[last.b].st = "freed"
    /\ SendTasks = {}

\* C7: without http2 support hyper_clientconn_options_http2 returns
\* FeatureNotEnabled for every argument and changes no options, so no options
\* ever select protocol-2 and every connection handle is protocol-1; with
\* http2 support it returns OK on a valid handle and sets the selection to
\* (enabled != 0), and returns InvalidArg on a null handle, changing nothing.
C7_Http2Setter ==
    [][ /\ \A o \in {NULL} \cup OptIds : \A v \in EnabledVals :
              (last'.op = "hyper_clientconn_options_http2" /\ hyper_clientconn_options_http2(o, v)) =>
                  IF ~feature_http2
                  THEN last'.code = "HYPERE_FEATURE_NOT_ENABLED" /\ options' = options
                  ELSE IF o = NULL
                  THEN last'.code = "HYPERE_INVALID_ARG" /\ options' = options
                  ELSE /\ last'.code = "HYPERE_OK"
                       /\ options'[o].http2 = (v # 0)
                       /\ options'[o].st = "caller"
        /\ ~feature_http2 =>
              /\ \A o \in OptIds : ~options'[o].http2
              /\ \A c \in TaskIds : conn'[c].st # "unalloc" => conn'[c].tx = "Http1" ]_vars

\* C7 witness: in a build without http2 the setter was called on valid
\* options, returned FeatureNotEnabled and the selection is still protocol-1
C7_Witness ==
    /\ ~feature_http2
    /\ last.op = "hyper_clientconn_options_http2"
    /\ last.a # NULL
    /\ last.code = "HYPERE_FEATURE_NOT_ENABLED"
    /\ options[last.a].st = "caller" /\ ~options[last.a].http2

Setters ==
    { "hyper_clientconn_options_http2",
      "hyper_clientconn_options_set_preserve_header_case",
      "hyper_clientconn_options_set_preserve_header_order",
      "hyper_clientconn_options_http1_allow_multiline_headers",
      "hyper_clientconn_options_exec" }

FailureCodes == { "HYPERE_INVALID_ARG", "HYPERE_FEATURE_NOT_ENABLED" }

C9_WeakNeverKeepsExecutorAlive ==
    \A e \in ExecIds :
        /\ executor[e].strong = executor[e].caller
        /\ executor[e].st = "destroyed" <=> executor[e].caller = 0
        /\ executor[e].st = "live" <=> executor[e].caller > 0

\* C9 witness: a pending handshake task owns options that refer to an
\* executor the caller has released: the executor is destroyed all the same
C9_Witness ==
    \E t \in HandshakeTasks :
        /\ task[t].st = "pending"
        /\ options[task[t].opt].st = "task"
        /\ options[task[t].opt].exec # NoExec
        /\ executor[options[task[t].opt].exec].st = "destroyed"

\* C10: when the protocol handshake has succeeded and the executor of the
\* options cannot be upgraded, the task can be polled to completion, and the
\* poll resolves it with a connection handle and submits no driver to any
\* executor.
C10_NoExecutorStillSucceeds ==
    /\ [] (\A t \in TaskIds :
              ( /\ task[t].kind = "handshake" /\ task[t].st = "pending"
                /\ task[t].engine = "ok"
                /\ ~Upgrades(options[task[t].opt].exec) )
              => ENABLED PollHandshake(t))
    /\ [][ \A t \in TaskIds :
              ( /\ task[t].kind = "handshake" /\ task[t].st = "pending"
                /\ task[t].engine = "ok"
                /\ ~Upgrades(options[task[t].opt].exec)
                /\ task'[t].st = "ready" )
              => /\ task'[t].result = "conn"
                 /\ conn'[t].st = "task"
                 /\ spawned' = spawned ]_vars

\* C10 witness: a handshake resolved with a connection handle whose executor
\* was attached and had been released: no driver was submitted
C10_Witness ==
    \E t \in HandshakeTasks :
        /\ task[t].st = "ready" /\ task[t].result = "conn"
        /\ conn[t].exec # NoExec
        /\ executor[conn[t].exec].st = "destroyed"
        /\ \A e \in ExecIds : t \notin spawned[e]

\* C11: a driver is submitted to an executor only by the step that resolves a
\* pending handshake task with a connection handle, after the protocol
\* handshake succeeded; a handshake task that is still pending has no driver,
\* and one that was dropped while pending has none in any later state.
C11_DroppedPendingNeverSpawns ==
    [][ \A t \in TaskIds : \A e \in ExecIds :
          /\ (t \in spawned'[e] /\ t \notin spawned[e]) =>
                /\ task[t].kind = "handshake" /\ task[t].st = "pending"
                /\ task[t].engine = "ok"
                /\ task'[t].st = "ready" /\ task'[t].result = "conn"
          /\ (task[t].kind = "handshake" /\ task[t].st = "pending") => t \notin spawned[e]
          /\ task[t] = CancelledTask => (task'[t] = CancelledTask /\ t \notin spawned'[e])
          /\ task'[t] = CancelledTask => t \notin spawned'[e] ]_vars

\* C11 witness: a handshake task was dropped while pending, its options and
\* transport went with it, and the live executor was given no driver
C11_Witness ==
    \E t \in TaskIds :
        /\ task[t] = CancelledTask
        /\ options[1].st = "freed" /\ io[1].st = "freed"
        /\ executor[1].st = "live"
        /\ \A e \in ExecIds : spawned[e] = {}

\* C12: the step that resolves a handshake task whose protocol handshake
\* failed gives the task that error and nothing else: no connection handle
\* is made and no driver is submitted.  A handshake task's driver is
\* submitted at most once, to one executor, and only for a task that
\* produced a connection handle.
C12_FailedHandshakeOnlyError ==
    [][ \A t \in TaskIds :
          /\ ( /\ task[t].kind = "handshake" /\ task[t].st = "pending"
                /\ task[t].engine = "err"
                /\ task'[t].st = "ready" )
             => /\ task'[t].result = "err"
                /\ task'[t].conn = NULL
                /\ conn' = conn
                /\ conn'[t] = NoConn
                /\ spawned' = spawned
          /\ \A e \in ExecIds :
                /\ t \in spawned'[e] => conn'[t].st # "unalloc"
                /\ (t \in spawned'[e] /\ t \notin spawned[e]) =>
                      /\ \A f \in ExecIds : t \notin spawned[f]
                      /\ \A f \in ExecIds \ {e} : t \notin spawned'[f]
                      /\ task'[t].result = "conn" ]_vars

\* C12 witness: a handshake failed while its executor was live: the task is
\* ready with the error, there is no connection handle and no driver
C12_Witness ==
    \E t \in HandshakeTasks :
        /\ task[t].st = "ready" /\ task[t].result = "err" /\ task[t].conn = NULL
        /\ conn[t] = NoConn
        /\ executor[1].st = "live"
        /\ \A e \in ExecIds : spawned[e] = {}

\* C13: hyper_clientconn_free changes no task, no request and no transport,
\* so the sends made from the handle stay pending with their requests; a
\* pending send task can be polled whatever became of its handle, and the
\* poll resolves it to a response (always, if the transport is open) or to
\* an error.
C13_FreeDoesNotCancelSends ==
    /\ [] (\A t \in TaskIds :
              (task[t].kind = "send" /\ task[t].st = "pending") => ENABLED PollSend(t))
    /\ [][ /\ \A c \in {NULL} \cup TaskIds :
                 (last'.op = "hyper_clientconn_free" /\ hyper_clientconn_free(c)) =>
                     /\ task' = task
                     /\ request' = request
                     /\ io' = io
           /\ \A t \in TaskIds :
                 ( /\ task[t].kind = "send" /\ task[t].st = "pending"
                   /\ conn[task[t].conn].st = "freed"
                   /\ task'[t].st = "ready" )
                 => /\ task'[t].result \in {"resp", "err"}
                    /\ TransportOpen(task[t].conn) => task'[t].result = "resp" ]_vars

\* C13 witness: the handle was freed while a send made from it is pending:
\* the task still owns its request, and its transport is open
C13_Witness ==
    \E t \in SendTasks :
        /\ last.op = "hyper_clientconn_free" /\ last.a = task[t].conn
        /\ conn[task[t].conn].st = "freed"
        /\ task[t].st = "pending"
        /\ request[task[t].req].st = "engine"
        /\ TransportOpen(task[t].conn)

\* the pending handshake tasks whose future owns options o, transport i
OptionsHolders(o) ==
    { t \in TaskIds : task[t].kind = "handshake" /\ task[t].st = "pending" /\ task[t].opt = o }
IoHolders(i) ==
    { t \in TaskIds : task[t].kind = "handshake" /\ task[t].st = "pending" /\ task[t].io = i }
\* the connections whose driver, given to a live executor, owns transport i
IoDrivers(i) ==
    { c \in TaskIds : /\ conn[c].st # "unalloc" /\ conn[c].io = i
                      /\ \E e \in ExecIds : c \in spawned[e] /\ executor[e].st = "live" }
\* the pending send tasks whose future owns request r
RequestHolders(r) ==
    { t \in TaskIds : task[t].kind = "send" /\ task[t].st = "pending" /\ task[t].req = r }

\* every object is owned by the caller, by exactly one task or driver, or is
\* freed; what an owner refers to is what it owns
SingleOwner ==
    /\ \A o \in OptIds :
          /\ options[o].st \in {"unalloc", "caller", "task", "freed"}
          /\ Cardinality(OptionsHolders(o)) = IF options[o].st = "task" THEN 1 ELSE 0
    /\ \A i \in IoIds :
          /\ io[i].st \in {"caller", "task", "engine", "freed"}
          /\ Cardinality(IoHolders(i)) = IF io[i].st = "task" THEN 1 ELSE 0
          /\ Cardinality(IoDrivers(i)) = IF io[i].st = "engine" THEN 1 ELSE 0
    /\ \A r \in ReqIds :
          /\ request[r].st \in {"caller", "engine", "freed"}
          /\ Cardinality(RequestHolders(r)) = IF request[r].st = "engine" THEN 1 ELSE 0
    /\ \A c \in TaskIds :
          /\ conn[c].st \in {"unalloc", "task", "caller", "freed"}
          /\ conn[c].st = "task" <=> (task[c].st = "ready" /\ task[c].result = "conn")
          /\ conn[c].st = "caller" => task[c].st \in {"consumed", "dropped"}

\* C14: in every state each options, transport, request and connection
\* object is owned by the caller, by exactly one task (or driver), or is
\* freed; a step frees an object only if it had an owner, and a freed object
\* stays freed, so none is freed twice.  The step by which a handshake task
\* stops being pending (resolved with a handle, resolved with an error, or
\* dropped) frees its options, and frees its transport or gives it to the
\* one driver of the new connection.  A free operation on a null handle
\* changes nothing.
C14_SingleOwnerFreedOnce ==
    /\ []SingleOwner
    /\ [][ /\ \A o \in OptIds :
                 /\ options[o].st = "freed" => options'[o].st = "freed"
                 /\ (options'[o].st = "freed" /\ options[o].st # "freed") =>
                       options[o].st \in {"caller", "task"}
           /\ \A i \in IoIds :
                 /\ io[i].st = "freed" => io'[i].st = "freed"
                 /\ (io'[i].st = "freed" /\ io[i].st # "freed") => io[i].st \in {"task", "engine"}
           /\ \A r \in ReqIds :
                 /\ request[r].st = "freed" => request'[r].st = "freed"
                 /\ (request'[r].st = "freed" /\ request[r].st # "freed") =>
                       request[r].st \in {"caller", "engine"}
           /\ \A c \in TaskIds :
                 /\ conn[c].st = "freed" => conn'[c].st = "freed"
                 /\ (conn'[c].st = "freed" /\ conn[c].st # "freed") =>
                       conn[c].st \in {"task", "caller"}
           /\ \A t \in TaskIds :
                 ( /\ task[t].kind = "handshake" /\ task[t].st = "pending"
                   /\ task'[t].st # "pending" )
                 => /\ task'[t].st \in {"ready", "dropped"}
                    /\ options[task[t].opt].st = "task"
                    /\ options'[task[t].opt].st = "freed"
                    /\ io[task[t].io].st = "task"
                    /\ io'[task[t].io].st \in {"freed", "engine"}
                    /\ (io'[task[t].io].st = "engine" =>
                          (task'[t].result = "conn" /\ IoDrivers(task[t].io)' = {t}))
           /\ (last'.op = "hyper_clientconn_options_free" /\ hyper_clientconn_options_free(NULL)) =>
                 UNCHANGED <<options, io, executor, spawned, request, task, conn>>
           /\ (last'.op = "hyper_clientconn_free" /\ hyper_clientconn_free(NULL)) =>
                 UNCHANGED <<options, io, executor, spawned, request, task, conn>> ]_vars

\* C14 witness: a whole life of the connection is over: the options, the
\* transport, every request and the connection handle are freed, and no task
\* is pending
C14_Witness ==
    /\ \A o \in OptIds : options[o].st = "freed"
    /\ \A i \in IoIds : io[i].st = "freed"
    /\ \A r \in ReqIds : request[r].st = "freed"
    /\ \E c \in TaskIds : conn[c].st = "freed"
    /\ \A t \in TaskIds : task[t].st # "pending"

\* C15: a task's state only moves forward: created pending, pending to
\* ready, ready to consumed, and dropped from any of them; never back, and a
\* ready task keeps its result.  hyper_task_value returns the value exactly
\* when the task is ready, and that call makes the task consumed; on a
\* pending or a consumed task it returns null and changes nothing, so no
\* value is handed out twice.
C15_TaskMovesForward ==
    [][ /\ \A t \in TaskIds :
               \/ task'[t].st = task[t].st /\ task'[t].result = task[t].result
               \/ task[t].st = "unalloc" /\ task'[t].st = "pending"
               \/ task[t].st = "pending" /\ task'[t].st = "ready"
               \/ task[t].st = "ready" /\ task'[t].st = "consumed"
                     /\ task'[t].result = task[t].result
               \/ task[t].st \in {"pending", "ready", "consumed"} /\ task'[t].st = "dropped"
        /\ \A t \in TaskIds :
               (last'.op = "hyper_task_value" /\ hyper_task_value(t)) =>
                   IF task[t].st = "ready"
                   THEN /\ last'.ret = t
                        /\ last'.code = task[t].result
                        /\ last'.code \in {"conn", "resp", "err"}
                        /\ task'[t].st = "consumed"
                   ELSE /\ last'.ret = NULL
                        /\ task' = task
                        /\ conn' = conn
        /\ \A t \in TaskIds :
               (task[t].st = "ready" /\ task'[t].st = "consumed") =>
                   (last'.op = "hyper_task_value" /\ last'.a = t /\ last'.ret = t) ]_vars

\* C15 witness: the value of a task was taken, and a second
\* hyper_task_value on the same task returned null
C15_Witness ==
    /\ last.op = "hyper_task_value"
    /\ last.a # NULL /\ last.ret = NULL
    /\ task[last.a].st = "consumed"

\* C17 as claimed, its first part: every setter called on a valid handle
\* writes its own field to (enabled # 0).
C17_EverySetterWrites ==
    [][ \A o \in OptIds : \A v \in EnabledVals :
          /\ ( /\ last'.op = "hyper_clientconn_options_set_preserve_header_case"
               /\ last'.a = o
               /\ hyper_clientconn_options_set_preserve_header_case(o, v) )
             => options'[o].http1_preserve_header_case = (v # 0)
          /\ ( /\ last'.op = "hyper_clientconn_options_set_preserve_header_order"
               /\ last'.a = o
               /\ hyper_clientconn_options_set_preserve_header_order(o, v) )
             => options'[o].http1_preserve_header_order = (v # 0)
          /\ ( /\ last'.op = "hyper_clientconn_options_http1_allow_multiline_headers"
               /\ last'.a = o
               /\ hyper_clientconn_options_http1_allow_multiline_headers(o, v) )
             => options'[o].http1_allow_obsolete_multiline_headers_in_responses = (v # 0)
          /\ ( /\ last'.op = "hyper_clientconn_options_http2"
               /\ last'.a = o
               /\ hyper_clientconn_options_http2(o, v) )
             => options'[o].http2 = (v # 0) ]_vars

\* C17 as amended: on a valid handle each setter writes its own field, to
\* (enabled # 0) or to the executor given, and leaves the other four fields
\* and the owner of the options as they were, except that in a build without
\* http2 hyper_clientconn_options_http2 writes nothing; options moved into a handshake task are not
\* written again, so the handshake reads what was written last: its builder
\* has the executor and the protocol of the options and, for protocol-1, the
\* three header flags; for protocol-2 the builder is the same whatever the
\* three header flags are.  The connection handle and the driver follow the
\* builder.
C17_SettersLastWriteWins ==
    [][ /\ \A o \in OptIds : \A v \in EnabledVals :
               /\ ( /\ last'.op = "hyper_clientconn_options_set_preserve_header_case"
                    /\ last'.a = o
                    /\ hyper_clientconn_options_set_preserve_header_case(o, v) )
                  => options'[o] = [options[o] EXCEPT !.http1_preserve_header_case = (v # 0)]
               /\ ( /\ last'.op = "hyper_clientconn_options_set_preserve_header_order"
                    /\ last'.a = o
                    /\ hyper_clientconn_options_set_preserve_header_order(o, v) )
                  => options'[o] = [options[o] EXCEPT !.http1_preserve_header_order = (v # 0)]
               /\ ( /\ last'.op = "hyper_clientconn_options_http1_allow_multiline_headers"
                    /\ last'.a = o
                    /\ hyper_clientconn_options_http1_allow_multiline_headers(o, v) )
                  => options'[o] = [options[o] EXCEPT
                        !.http1_allow_obsolete_multiline_headers_in_responses = (v # 0)]
               /\ ( /\ last'.op = "hyper_clientconn_options_http2"
                    /\ last'.a = o
                    /\ hyper_clientconn_options_http2(o, v) )
                  => IF feature_http2
                     THEN options'[o] = [options[o] EXCEPT !.http2 = (v # 0)]
                     ELSE options' = options
        /\ \A o \in OptIds : \A e \in ExecIds :
               ( /\ last'.op = "hyper_clientconn_options_exec"
                 /\ last'.a = o /\ last'.b = e
                 /\ hyper_clientconn_options_exec(o, e) )
               => /\ options'[o] = [options[o] EXCEPT !.exec = e]
                  /\ executor' = executor
        /\ \A o \in OptIds :
               (last'.op \in Setters /\ last' # last) => options'[o].st = options[o].st
        /\ \A o \in OptIds :
               options[o].st = "task" => (options'[o] = options[o] \/ options'[o].st = "freed")
        /\ \A t \in TaskIds :
               ( /\ task[t].kind = "handshake" /\ task[t].st = "pending"
                 /\ task'[t].st = "ready" )
               => LET opts == options[task[t].opt]
                      b == Builder(opts)
                  IN /\ b.exec = opts.exec
                     /\ b.proto = IF feature_http2 /\ opts.http2 THEN "Http2" ELSE "Http1"
                     /\ b.proto = "Http1" =>
                           /\ b.http1_allow_obsolete_multiline_headers_in_responses
                                 = opts.http1_allow_obsolete_multiline_headers_in_responses
                           /\ b.http1_preserve_header_case = opts.http1_preserve_header_case
                           /\ b.http1_preserve_header_order = opts.http1_preserve_header_order
                     /\ b.proto = "Http2" =>
                           \A m \in BOOLEAN : \A c \in BOOLEAN : \A r \in BOOLEAN :
                               Builder([opts EXCEPT
                                   !.http1_allow_obsolete_multiline_headers_in_responses = m,
                                   !.http1_preserve_header_case = c,
                                   !.http1_preserve_header_order = r]) = b
                     /\ task'[t].result = "conn" =>
                           /\ conn'[t].tx = b.proto
                           /\ conn'[t].exec = b.exec
                           /\ \A e \in ExecIds :
                                 t \in spawned'[e] <=> (e = opts.exec /\ executor[e].strong > 0) ]_vars

\* C17 witness: with two live executors, the handshake resolved with a
\* handle that refers to the second one, and the driver went to that one
C17_Witness ==
    \E t \in HandshakeTasks :
        /\ task[t].st = "ready" /\ task[t].result = "conn"
        /\ executor[1].st = "live" /\ executor[2].st = "live"
        /\ conn[t].exec = 2
        /\ spawned[2] = {t} /\ spawned[1] = {}

\* options as hyper_clientconn_options_new returns them
Untouched(opts) ==
    /\ ~opts.http1_allow_obsolete_multiline_headers_in_responses
    /\ ~opts.http1_preserve_header_case
    /\ ~opts.http1_preserve_header_order
    /\ ~opts.http2
    /\ opts.exec = NoExec

\* C18: hyper_clientconn_options_new returns options owned by the caller
\* with the three header flags false, protocol-2 not selected and no
\* executor.  A handshake on options with these values builds a protocol-1
\* connection with all three flags off; if the protocol handshake succeeds
\* the task resolves with a protocol-1 handle and no driver is submitted.
C18_DefaultOptions ==
    [][ /\ (last'.op = "hyper_clientconn_options_new" /\ hyper_clientconn_options_new) =>
              /\ last'.ret \in OptIds
              /\ options[last'.ret].st = "unalloc"
              /\ options'[last'.ret].st = "caller"
              /\ Untouched(options'[last'.ret])
        /\ \A t \in TaskIds :
              ( /\ task[t].kind = "handshake" /\ task[t].st = "pending"
                /\ Untouched(options[task[t].opt])
                /\ task'[t].st = "ready" )
              => LET b == Builder(options[task[t].opt])
                 IN /\ b.proto = "Http1"
                    /\ b.exec = NoExec
                    /\ ~b.http1_allow_obsolete_multiline_headers_in_responses
                    /\ ~b.http1_preserve_header_case
                    /\ ~b.http1_preserve_header_order
                    /\ spawned' = spawned
                    /\ task[t].engine = "ok" =>
                          /\ task'[t].result = "conn"
                          /\ conn'[t].st = "task"
                          /\ conn'[t].tx = "Http1"
                          /\ conn'[t].exec = NoExec ]_vars

\* C18 witness: in a build with http2 and with a live executor at hand, a
\* handshake resolved with a protocol-1 handle that has no executor, and no
\* driver was submitted
C18_Witness ==
    \E t \in HandshakeTasks :
        /\ feature_http2
        /\ task[t].st = "ready" /\ task[t].result = "conn"
        /\ conn[t].tx = "Http1" /\ conn[t].exec = NoExec
        /\ executor[1].st = "live"
        /\ \A e \in ExecIds : spawned[e] = {}

\* C19: hyper_clientconn_send with a null connection handle and a request of
\* the caller returns null with the request taken: it is finalized and
\* freed, no other request is touched, and a freed request stays freed.
\* With a null request it returns null and changes no connection, no request
\* and no task.
C19_SendTakesRequestFirst ==
    [][ /\ \A r \in ReqIds :
              ( /\ last'.op = "hyper_clientconn_send"
                /\ last'.a = NULL /\ last'.b = r
                /\ hyper_clientconn_send(NULL, r) )
              => /\ last'.ret = NULL
                 /\ request[r] = [st |-> "caller", finalized |-> FALSE]
                 /\ request'[r] = [st |-> "freed", finalized |-> TRUE]
                 /\ \A q \in ReqIds \ {r} : request'[q] = request[q]
                 /\ task' = task
                 /\ conn' = conn
        /\ \A c \in {NULL} \cup TaskIds :
              ( /\ last'.op = "hyper_clientconn_send"
                /\ last'.a = c /\ last'.b = NULL
                /\ hyper_clientconn_send(c, NULL) )
              => /\ last'.ret = NULL
                 /\ conn' = conn
                 /\ request' = request
                 /\ task' = task
        /\ \A r \in ReqIds : request[r].st = "freed" => request'[r] = request[r] ]_vars

\* C19 witness: while the caller owns a connection handle, a send with a
\* null handle returned null and its request is finalized and freed
C19_Witness ==
    /\ last.op = "hyper_clientconn_send"
    /\ last.a = NULL /\ last.b # NULL /\ last.ret = NULL
    /\ request[last.b] = [st |-> "freed", finalized |-> TRUE]
    /\ \E c \in TaskIds : conn[c].st = "caller"

====
